---------------------------- MODULE Spec2Model ----------------------------
(***************************************************************************)
(* Kinetic Monte Carlo simulation of a reaction network                    *)
(* (pymatgen/reaction_network/simulation_li_limited_fxns.py).              *)
(*                                                                         *)
(* Numbers.  Population counts are integers.  Rate constants are small     *)
(* non-negative integers, so every coordination number, propensity and     *)
(* propensity sum is an exact integer (n*(n-1) is even, so n*(n-1)/2 is    *)
(* exact as well).  A uniform draw r in [0,1) is its numerator over RDen.  *)
(* A waiting time -ln(r1)/A0 is kept as the pair of r1's numerator and A0. *)
(*                                                                         *)
(* Arrays are functions on 0-based index sets, as in the source; Python    *)
(* lists that are built by append are sequences.                           *)
(***************************************************************************)
EXTENDS Integers, Sequences, FiniteSets, TLC

\* ------------------------------------------------------------------ bounds
\* number of species ids (num_entries in the source)
NumSpecies == 3
\* largest initial molecule count of a species with an initial concentration
MaxCount == 2
\* largest number of time steps asked of one simulate call
MaxSteps == 2
\* resolution of the uniform draws: r = k / RDen, k in 0 .. RDen-1
RDen == 3
\* largest number of direct calls of update_state in a row
MaxCalls == 2

Species == 0 .. (NumSpecies - 1)
Absent == 0 - 1

\* species that have an initial concentration (the keys of
\* initial_state_dict; li, ec, emc, h2o in the source)
InitKeys == {0, 1}

\* numerators of the draws
R2Values == 0 .. (RDen - 1)
R1Values == {1, 2}

\* the pairs <<r1, r2>> one step may draw: every r2, and two values of r1
Draws == {<<1, r2>> : r2 \in R2Values} \cup {<<2, 0>>}

\* ----------------------------------------------------------- Python helpers
Max(a, b) == IF a >= b THEN a ELSE b
Min(a, b) == IF a <= b THEN a ELSE b

\* Python / numpy index: a negative index counts from the end
PyIdx(i, n) == IF i < 0 THEN i + n ELSE i

\* stop position of the slice [: stop] of a row of length n
SliceStop(stop, n) == IF stop < 0 THEN Max(stop + n, 0) ELSE Min(stop, n)

\* dict.get(key, default)
DictGet(d, key, default) == IF key \in DOMAIN d THEN d[key] ELSE default

RECURSIVE SumTo(_, _)
\* f[0] + ... + f[n-1]
SumTo(f, n) == IF n = 0 THEN 0 ELSE SumTo(f, n - 1) + f[n - 1]

RECURSIVE SeqMax(_)
\* max of a non-empty list
SeqMax(s) == IF Len(s) = 1 THEN s[1] ELSE Max(s[1], SeqMax(Tail(s)))

\* --------------------------------------------------- the reaction descriptors
Rxn(r, p, ka, kb) == [reactants |-> r, products |-> p, k_A |-> ka, k_B |-> kb]

\* the last species id: the one index -1 addresses
Last == NumSpecies - 1

\* the species the networks below are built from
UsedSpecies == {0, 1, Last}

\* a side of 1 or 2 species, written in non-decreasing id order
Sides == {<<a>> : a \in UsedSpecies}
         \cup {p \in UsedSpecies \X UsedSpecies : p[1] <= p[2]}

\* every reversible reaction between two sides, with equal unit rates
UnitReactions == {Rxn(r, p, 1, 1) : r \in Sides, p \in Sides}

\* reactions with unequal and with zero rate constants
RatedReactions ==
    {Rxn(<<0>>, <<1>>, 2, 1), Rxn(<<0>>, <<1>>, 1, 0), Rxn(<<0>>, <<1>>, 0, 1),
     Rxn(<<0, 0>>, <<1>>, 1, 2), Rxn(<<0, 1>>, <<Last>>, 2, 1),
     Rxn(<<0>>, <<1, Last>>, 0, 2)}

\* networks of two reactions: sharing species, sharing none, with a side
\* of two identical species that the other reaction does or does not touch
TwoReactionNetworks ==
    {<<Rxn(<<0>>, <<1>>, 1, 1), Rxn(<<1>>, <<Last>>, 1, 1)>>,
     <<Rxn(<<0>>, <<Last>>, 1, 1), Rxn(<<1, 1>>, <<Last>>, 1, 1)>>,
     <<Rxn(<<0, 0>>, <<Last>>, 1, 1), Rxn(<<1>>, <<Last>>, 2, 1)>>,
     <<Rxn(<<0, 0>>, <<1>>, 1, 1), Rxn(<<0>>, <<Last>>, 1, 1)>>,
     <<Rxn(<<0, 1>>, <<Last>>, 1, 1), Rxn(<<Last>>, <<0, 0>>, 1, 1)>>,
     <<Rxn(<<0>>, <<1>>, 1, 1), Rxn(<<0>>, <<1>>, 1, 1)>>,
     <<Rxn(<<0>>, <<0, 1>>, 1, 1), Rxn(<<1, 1>>, <<Last, Last>>, 1, 2)>>,
     <<Rxn(<<1>>, <<0>>, 0, 1), Rxn(<<0, 1>>, <<1, Last>>, 2, 1)>>}

\* networks that initialize_simulation rejects: a side of 0 or of 3 species
InvalidNetworks ==
    {<<Rxn(<<>>, <<0>>, 1, 1)>>, <<Rxn(<<0>>, <<>>, 1, 1)>>,
     <<Rxn(<<0, 1, Last>>, <<0>>, 1, 1)>>, <<Rxn(<<0>>, <<0, 0, 1>>, 1, 1)>>,
     <<Rxn(<<0>>, <<1>>, 1, 1), Rxn(<<0, 1>>, <<>>, 1, 1)>>,
     <<Rxn(<<0, 0, 0>>, <<>>, 1, 1), Rxn(<<0>>, <<1>>, 1, 1)>>}

Networks ==
    {<<>>} \cup {<<rx>> : rx \in UnitReactions \cup RatedReactions}
    \cup TwoReactionNetworks \cup InvalidNetworks

\* ------------------------------------------------ initialize_simulation
\* the arity test that takes every side of two or more species as
\* bimolecular and writes its first two slots: only an empty side raises
RxnErrorEmptyOnly(rx) ==
    IF Len(rx.reactants) = 0 THEN "RuntimeError"
    ELSE IF Len(rx.products) = 0 THEN "RuntimeError"
    ELSE "none"

\* the error, if any, that compiling one reaction raises: writing a third
\* species into a 2-column row is an IndexError, a side that is neither
\* single nor bimolecular a RuntimeError
RxnError(rx) ==
    IF Len(rx.reactants) > 2 THEN "IndexError"
    ELSE IF Len(rx.products) > 2 THEN "IndexError"
    ELSE IF Len(rx.reactants) \notin {1, 2} THEN "RuntimeError"
    ELSE IF Len(rx.products) \notin {1, 2} THEN "RuntimeError"
    ELSE "none"

\* the error of the first reaction, in list order, that raises
CompileError(rxns) ==
    LET bad == {i \in 1 .. Len(rxns) : RxnError(rxns[i]) # "none"}
    IN  IF bad = {} THEN "none"
        ELSE RxnError(rxns[CHOOSE i \in bad : \A j \in bad : i <= j])

\* initial_state: one count per species id, 0 unless the dict gives one
InitialState(dict) == [s \in Species |-> DictGet(dict, s, 0)]

\* one row of reactant_array / product_array: the side's species ids in
\* slot order, -1 in the unused slot
SideRow(side) == [idx \in 0 .. 1 |-> IF idx < Len(side) THEN side[idx + 1] ELSE Absent]

ReactantArray(rxns) == [id \in 0 .. (Len(rxns) - 1) |-> SideRow(rxns[id + 1].reactants)]
ProductArray(rxns) == [id \in 0 .. (Len(rxns) - 1) |-> SideRow(rxns[id + 1].products)]

\* the rate vector with k_B at the even and k_A at the odd index
RateConstantsSwapped(rxns) ==
    [c \in 0 .. (2 * Len(rxns) - 1) |->
        IF c % 2 = 0 THEN rxns[(c \div 2) + 1].k_B ELSE rxns[(c \div 2) + 1].k_A]

RateConstants(rxns) ==
    [c \in 0 .. (2 * Len(rxns) - 1) |->
        IF c % 2 = 0 THEN rxns[(c \div 2) + 1].k_A ELSE rxns[(c \div 2) + 1].k_B]

\* the channel index ch, once per slot of side that holds species s
Appends(side, s, ch) ==
    [i \in 1 .. Cardinality({j \in 1 .. Len(side) : side[j] = s}) |-> ch]

RECURSIVE MappingListReactants(_, _, _)
\* the list that drops the appends of the product slots
MappingListReactants(rxns, s, n) ==
    IF n = 0 THEN <<>>
    ELSE MappingListReactants(rxns, s, n - 1)
         \o Appends(rxns[n].reactants, s, 2 * (n - 1))

RECURSIVE MappingListBoth(_, _, _)
\* the list that gets both channels of a reaction for every slot holding s
MappingListBoth(rxns, s, n) ==
    IF n = 0 THEN <<>>
    ELSE MappingListBoth(rxns, s, n - 1)
         \o Appends(rxns[n].reactants, s, 2 * (n - 1))
         \o Appends(rxns[n].reactants, s, 2 * (n - 1) + 1)
         \o Appends(rxns[n].products, s, 2 * (n - 1))
         \o Appends(rxns[n].products, s, 2 * (n - 1) + 1)

RECURSIVE MappingList(_, _, _)
\* species_rxn_mapping_list[s] after the first n reactions: 2*id is appended
\* for every reactant slot holding s, then 2*id+1 for every product slot
MappingList(rxns, s, n) ==
    IF n = 0 THEN <<>>
    ELSE MappingList(rxns, s, n - 1)
         \o Appends(rxns[n].reactants, s, 2 * (n - 1))
         \o Appends(rxns[n].products, s, 2 * (n - 1) + 1)

\* the compile-time number with n * n for a side of two identical species
InitCoordSideSquare(side, dict) ==
    LET num == [i \in 1 .. Len(side) |-> DictGet(dict, side[i], 0)]
    IN  IF Len(side) = 1 THEN num[1]
        ELSE num[1] * num[2]

\* the coordination number stored at compile time for one side
InitCoordSide(side, dict) ==
    LET num == [i \in 1 .. Len(side) |-> DictGet(dict, side[i], 0)]
    IN  IF Len(side) = 1 THEN num[1]
        ELSE IF side[1] = side[2] THEN num[1] * (num[1] - 1)
        ELSE num[1] * num[2]

InitCoordArray(rxns, dict) ==
    [c \in 0 .. (2 * Len(rxns) - 1) |->
        IF c % 2 = 0 THEN InitCoordSide(rxns[(c \div 2) + 1].reactants, dict)
        ELSE InitCoordSide(rxns[(c \div 2) + 1].products, dict)]

\* the row with the list written into its trailing slots, the slice
\* [len - max :]
PadRowTrailing(list, maxlen) ==
    [j \in 0 .. (maxlen - 1) |->
        IF j >= maxlen - Len(list) THEN list[j - (maxlen - Len(list)) + 1]
        ELSE Absent]

\* one row of the padded table: the list is written into the slice
\* [: len - max] of a row of -1 (the whole row when len = max)
PadRow(list, maxlen) ==
    LET stop == IF Len(list) = maxlen THEN maxlen
                ELSE SliceStop(Len(list) - maxlen, maxlen)
    IN  [j \in 0 .. (maxlen - 1) |-> IF j < stop THEN list[j + 1] ELSE Absent]

SpeciesRxnMapping(rxns) ==
    LET lists == [s \in Species |-> MappingList(rxns, s, Len(rxns))]
        lengths == [s \in 1 .. NumSpecies |-> Len(lists[s - 1])]
        maxlen == SeqMax(lengths)
    IN  [s \in Species |-> PadRow(lists[s], maxlen)]

initialize_simulation(rxns, dict) ==
    [initial_state_dict |-> dict,
     initial_state |-> InitialState(dict),
     species_rxn_mapping |-> SpeciesRxnMapping(rxns),
     reactant_array |-> ReactantArray(rxns),
     product_array |-> ProductArray(rxns),
     coord_array |-> InitCoordArray(rxns, dict),
     rate_constants |-> RateConstants(rxns)]

\* ---------------------------------------------------------- update_state
\* the decrement that clamps a count at 0 and raises nothing
DecSlotClamp(res, id) ==
    IF res.err # "none" \/ id = Absent THEN res
    ELSE [state |-> [res.state EXCEPT ![id] = Max(@ - 1, 0)], err |-> "none"]

\* the decrement that tests the count before it writes it
DecSlotTestFirst(res, id) ==
    IF res.err # "none" \/ id = Absent THEN res
    ELSE IF res.state[id] - 1 < 0 THEN [state |-> res.state, err |-> "ValueError"]
    ELSE [state |-> [res.state EXCEPT ![id] = @ - 1], err |-> "none"]

\* one pass of a decrement loop over a slot: skipped for the sentinel and
\* once an error was raised; the count is written before it is tested
DecSlot(res, id) ==
    IF res.err # "none" \/ id = Absent THEN res
    ELSE LET st == [res.state EXCEPT ![id] = @ - 1]
         IN  [state |-> st, err |-> IF st[id] < 0 THEN "ValueError" ELSE "none"]

\* the increment that sets the count to 1, as for a species not seen yet
IncSlotSet(res, id) ==
    IF res.err # "none" \/ id = Absent THEN res
    ELSE [state |-> [res.state EXCEPT ![id] = 1], err |-> "none"]

\* one pass of an increment loop over a slot
IncSlot(res, id) ==
    IF res.err # "none" \/ id = Absent THEN res
    ELSE [state |-> [res.state EXCEPT ![id] = @ + 1], err |-> "none"]

\* update_state that takes every firing as a forward one
update_state_forward_only(reacts, prods, st, rxn_ind, reverse) ==
    LET d0 == DecSlot([state |-> st, err |-> "none"], reacts[rxn_ind][0])
        d1 == DecSlot(d0, reacts[rxn_ind][1])
        i0 == IncSlot(d1, prods[rxn_ind][0])
    IN  IncSlot(i0, prods[rxn_ind][1])

\* update_state whose increment loop stops after the first slot
update_state_one_product(reacts, prods, st, rxn_ind, reverse) ==
    LET consumed == IF reverse THEN prods[rxn_ind] ELSE reacts[rxn_ind]
        produced == IF reverse THEN reacts[rxn_ind] ELSE prods[rxn_ind]
        d0 == DecSlot([state |-> st, err |-> "none"], consumed[0])
        d1 == DecSlot(d0, consumed[1])
    IN  IncSlot(d1, produced[0])

\* update_state whose reverse branch increments the side it decremented
update_state_reverse_same_side(reacts, prods, st, rxn_ind, reverse) ==
    IF rxn_ind = Absent THEN [state |-> st, err |-> "RuntimeError"]
    ELSE LET consumed == IF reverse THEN prods[rxn_ind] ELSE reacts[rxn_ind]
             d0 == DecSlot([state |-> st, err |-> "none"], consumed[0])
             d1 == DecSlot(d0, consumed[1])
             i0 == IncSlot(d1, prods[rxn_ind][0])
         IN  IncSlot(i0, prods[rxn_ind][1])

update_state(reacts, prods, st, rxn_ind, reverse) ==
    IF rxn_ind = Absent THEN [state |-> st, err |-> "RuntimeError"]
    ELSE LET consumed == IF reverse THEN prods[rxn_ind] ELSE reacts[rxn_ind]
             produced == IF reverse THEN reacts[rxn_ind] ELSE prods[rxn_ind]
             d0 == DecSlot([state |-> st, err |-> "none"], consumed[0])
             d1 == DecSlot(d0, consumed[1])
             i0 == IncSlot(d1, produced[0])
         IN  IncSlot(i0, produced[1])

\* ------------------------------------------------------- get_coordination
\* the calculator that takes two equal counts for two identical species
get_coordination_equal_counts(reacts, prods, st, rxn_id, reverse) ==
    LET reactant_array == IF reverse THEN prods[rxn_id] ELSE reacts[rxn_id]
        num_reactants == Cardinality({i \in 0 .. 1 : reactant_array[i] # Absent})
        num_mols_list == [i \in 0 .. 1 |-> st[PyIdx(reactant_array[i], NumSpecies)]]
    IN  IF num_reactants = 1 THEN [h |-> num_mols_list[0], err |-> "none"]
        ELSE IF num_reactants = 2 /\ num_mols_list[0] = num_mols_list[1]
             THEN [h |-> (num_mols_list[0] * (num_mols_list[0] - 1)) \div 2, err |-> "none"]
        ELSE IF num_reactants = 2
             THEN [h |-> num_mols_list[0] * num_mols_list[1], err |-> "none"]
        ELSE [h |-> 0, err |-> "RuntimeError"]

\* the calculator that counts the slots of the row, sentinel included
get_coordination_sentinel_counted(reacts, prods, st, rxn_id, reverse) ==
    LET reactant_array == IF reverse THEN prods[rxn_id] ELSE reacts[rxn_id]
        num_mols_list == [i \in 0 .. 1 |-> st[PyIdx(reactant_array[i], NumSpecies)]]
    IN  IF reactant_array[0] = reactant_array[1]
        THEN [h |-> (num_mols_list[0] * (num_mols_list[0] - 1)) \div 2, err |-> "none"]
        ELSE [h |-> num_mols_list[0] * num_mols_list[1], err |-> "none"]

get_coordination(reacts, prods, st, rxn_id, reverse) ==
    LET reactant_array == IF reverse THEN prods[rxn_id] ELSE reacts[rxn_id]
        num_reactants == Cardinality({i \in 0 .. 1 : reactant_array[i] # Absent})
        num_mols_list == [i \in 0 .. 1 |-> st[PyIdx(reactant_array[i], NumSpecies)]]
    IN  IF num_reactants = 1 THEN [h |-> num_mols_list[0], err |-> "none"]
        ELSE IF num_reactants = 2 /\ reactant_array[0] = reactant_array[1]
             THEN [h |-> (num_mols_list[0] * (num_mols_list[0] - 1)) \div 2, err |-> "none"]
        ELSE IF num_reactants = 2
             THEN [h |-> num_mols_list[0] * num_mols_list[1], err |-> "none"]
        ELSE [h |-> 0, err |-> "RuntimeError"]

\* ---------------------------------------------------------------- simulate
NumChannels(p) == Cardinality(DOMAIN p)

\* np.multiply(rate_constants, coord_array)
Propensity(rates, coords) == [c \in DOMAIN coords |-> rates[c] * coords[c]]

RECURSIVE WherePositive(_, _)
\* np.where(p > 0)[0] over the first n entries: ascending channel indices
WherePositive(p, n) ==
    IF n = 0 THEN <<>>
    ELSE IF p[n - 1] > 0 THEN Append(WherePositive(p, n - 1), n - 1)
    ELSE WherePositive(p, n - 1)

RECURSIVE WhereNonNegative(_, _)
WhereNonNegative(p, n) ==
    IF n = 0 THEN <<>>
    ELSE IF p[n - 1] >= 0 THEN Append(WhereNonNegative(p, n - 1), n - 1)
    ELSE WhereNonNegative(p, n - 1)

\* the relevant set taken with >= 0 in place of > 0
RelevantIndNonNegative(p) == WhereNonNegative(p, NumChannels(p))

\* the relevant set taken as every channel
RelevantIndAll(p) == [k \in 1 .. NumChannels(p) |-> k - 1]

RelevantInd(p) == WherePositive(p, NumChannels(p))

RECURSIVE Cumsum(_, _, _)
\* np.cumsum(p[rel])[k-1]: the sum over the first k relevant channels
Cumsum(p, rel, k) == IF k = 0 THEN 0 ELSE Cumsum(p, rel, k - 1) + p[rel[k]]

\* the sum over the relevant channels that misses the last of them
SumRelevantShort(p, rel) == Cumsum(p, rel, Max(Len(rel) - 1, 0))

\* np.sum(p[rel])
SumRelevant(p, rel) == Cumsum(p, rel, Len(rel))

\* np.sum(p)
SumAll(p) == SumTo(p, NumChannels(p))

\* the threshold test taken with > in place of >=
ReachedPositionsStrict(p, rel, total, r2) ==
    {k \in 1 .. Len(rel) : Cumsum(p, rel, k) * RDen > r2 * total}

\* np.where(np.cumsum(p[rel]) >= r2 * total)[0]: the positions (from 1) in
\* rel whose running sum reaches the threshold; r2 is a numerator over RDen
ReachedPositions(p, rel, total, r2) ==
    {k \in 1 .. Len(rel) : Cumsum(p, rel, k) * RDen >= r2 * total}

\* ...[0]: the first of them
FirstPosition(ks) == CHOOSE k \in ks : \A j \in ks : k <= j

\* the waiting time -ln(r1 / RDen) / total, as the pair it is computed from
Tau(r1, total) == [r1 |-> r1, A0 |-> total]

\* the float 0.0 that fills the times list: -ln(RDen / RDen) / 1
ZeroTime == Tau(RDen, 1)

\* the channels listed, padding included, in the rows of the dependency
\* table of the species in the slots of one table row
RowsOf(mapping, row) ==
    UNION {{mapping[row[i]][j] : j \in DOMAIN mapping[row[i]]} :
             i \in {k \in 0 .. 1 : row[k] # Absent}}

ReactionsToChange(mapping, reacts, prods, rxn) ==
    RowsOf(mapping, reacts[rxn]) \cup RowsOf(mapping, prods[rxn])

\* the refresh loop left out: every coordination number stays as it was
RefreshCoordNone(coords, change, reacts, prods, st) == coords

\* the refresh that recomputes every channel
RefreshCoordAll(coords, change, reacts, prods, st) ==
    [c \in DOMAIN coords |->
        get_coordination(reacts, prods, st, c \div 2, c % 2 = 1).h]

\* the coordination array after the refresh loop over reactions_to_change
RefreshCoord(coords, change, reacts, prods, st) ==
    [c \in DOMAIN coords |->
        IF c \in change /\ c # Absent
        THEN get_coordination(reacts, prods, st, c \div 2, c % 2 = 1).h
        ELSE coords[c]]

RefreshRaises(change, reacts, prods, st) ==
    \E c \in change \ {Absent} :
        get_coordination(reacts, prods, st, c \div 2, c % 2 = 1).err # "none"

\* the channels of reactions_to_change whose get_coordination call returns
RefreshableChannels(change, reacts, prods, st) ==
    {c \in change \ {Absent} :
        get_coordination(reacts, prods, st, c \div 2, c % 2 = 1).err = "none"}

\* a history write that always lands in the first entry
RecordEventFirst(hist, i, v) == [hist EXCEPT ![0] = v]

\* history[i] = v
RecordEvent(hist, i, v) == [hist EXCEPT ![i] = v]

\* ---------------------------------------------------------- plot_trajectory
\* one pass of the replay loop over a consumed slot of the state dict
PlotDec(res, id, t) ==
    IF res.err # "none" \/ id = Absent THEN res
    ELSE IF id \notin DOMAIN res.state THEN [res EXCEPT !.err = "ValueError"]
    ELSE LET st == [res.state EXCEPT ![id] = @ - 1]
         IN  IF st[id] < 0 THEN [res EXCEPT !.state = st, !.err = "ValueError"]
             ELSE IF id \notin DOMAIN res.plot
                  THEN [res EXCEPT !.state = st, !.err = "ValueError"]
             ELSE [res EXCEPT !.state = st,
                              !.plot[id] = Append(@, <<t, st[id]>>)]

\* d with d[key] = val, key new or not
DictSet(d, key, val) ==
    [k \in DOMAIN d \cup {key} |-> IF k = key THEN val ELSE d[k]]

PlotInc(res, id, t) ==
    IF res.err # "none" \/ id = Absent THEN res
    ELSE IF id \in DOMAIN res.state /\ id \in DOMAIN res.plot
         THEN [res EXCEPT !.state[id] = @ + 1,
                          !.plot[id] = Append(@, <<t, res.state[id] + 1>>)]
    ELSE [res EXCEPT !.state = DictSet(@, id, 1),
                     !.plot = DictSet(@, id, <<<<0, 0>>, <<t, 1>>>>)]

\* a replay step that takes every event as a forward firing
PlotEventForward(res, reacts, prods, this_rxn_ind, t) ==
    LET converted_ind == this_rxn_ind \div 2
        d0 == PlotDec(res, reacts[converted_ind][0], t)
        d1 == PlotDec(d0, reacts[converted_ind][1], t)
        i0 == PlotInc(d1, prods[converted_ind][0], t)
        i1 == PlotInc(i0, prods[converted_ind][1], t)
    IN  IF i1.err = "none" THEN [i1 EXCEPT !.trace = Append(@, i1.state)] ELSE i1

\* one iteration of the replay loop: event this_rxn_ind at time index t
PlotEvent(res, reacts, prods, this_rxn_ind, t) ==
    LET converted_ind == this_rxn_ind \div 2
        consumed == IF this_rxn_ind % 2 = 1 THEN prods[converted_ind]
                    ELSE reacts[converted_ind]
        produced == IF this_rxn_ind % 2 = 1 THEN reacts[converted_ind]
                    ELSE prods[converted_ind]
        d0 == PlotDec(res, consumed[0], t)
        d1 == PlotDec(d0, consumed[1], t)
        i0 == PlotInc(d1, produced[0], t)
        i1 == PlotInc(i0, produced[1], t)
    IN  IF i1.err = "none" THEN [i1 EXCEPT !.trace = Append(@, i1.state)] ELSE i1

RECURSIVE PlotReplay(_, _, _, _, _)
\* the replay loop over the first n events of reaction_history
PlotReplay(res, reacts, prods, history, n) ==
    IF n = 0 THEN res
    ELSE PlotEvent(PlotReplay(res, reacts, prods, history, n - 1),
                   reacts, prods, history[n - 1], n)

\* ------------------------------------------------------------------- state
VARIABLES
    pc,                  \* where the script is
    err,                 \* the exception that ended it, "none" if none
    reactions,           \* reaction_network.reactions
    amounts,             \* conc_to_amt of the initial concentrations
    time_steps,          \* number of steps asked of simulate
    initial_state_dict, initial_state, species_rxn_mapping,
    reactants, products, coord_array, rate_constants,
    state, propensity_array, total_propensity, relevant_ind,
    step_counter, reaction_history, times,
    data,                \* what simulate returned
    state_to_plot,       \* plot_trajectory's per-species trajectory
    replayed,            \* the state dict after each replayed event
    state_history,       \* the population array after each step
    iter,                \* the script's iteration
    events,              \* the (channel, waiting time) of each step, in order
    tape,                \* the draws <<r1, r2>> of each step begun, in order
    seeded,              \* the random source is reseeded alike every iteration
    calls,               \* the direct calls of update_state made so far
    first_run            \* what the first iteration drew and produced

compiled == <<initial_state_dict, initial_state, species_rxn_mapping,
              reactants, products, coord_array, rate_constants>>
running == <<state, propensity_array, total_propensity, relevant_ind,
             step_counter, reaction_history, times>>
inputs == <<reactions, amounts, time_steps, seeded, calls>>
plotting == <<state_to_plot, replayed>>
ghosts == <<state_history, events, tape>>
vars == <<pc, err, inputs, compiled, running, data, plotting, ghosts, iter,
          first_run>>

Empty == <<>>

\* nothing compiled, nothing run, nothing plotted yet
NothingCompiled ==
    /\ initial_state_dict = Empty /\ initial_state = Empty
    /\ species_rxn_mapping = Empty /\ reactants = Empty /\ products = Empty
    /\ coord_array = Empty /\ rate_constants = Empty

NothingRun ==
    /\ propensity_array = Empty /\ total_propensity = 0
    /\ relevant_ind = Empty /\ step_counter = 0
    /\ reaction_history = Empty /\ times = Empty
    /\ data = Empty
    /\ state_to_plot = Empty /\ replayed = Empty
    /\ state_history = Empty /\ events = Empty /\ tape = Empty
    /\ iter = 0 /\ first_run = Empty

InitWith(seed, networks) ==
    /\ pc = "Idle"
    /\ err = "none"
    /\ reactions \in networks
    /\ amounts \in [InitKeys -> 0 .. MaxCount]
    /\ time_steps \in 0 .. MaxSteps
    /\ seeded = seed
    /\ calls = Empty
    /\ NothingCompiled
    /\ state = Empty
    /\ NothingRun

Init == InitWith(FALSE, Networks)

\* the compile hoisted out of the loop: a later iteration reuses the arrays
InitializeOnce ==
    /\ pc = "Idle"
    /\ IF iter > 0
       THEN /\ pc' = "Compiled"
            /\ err' = "none"
            /\ UNCHANGED compiled
       ELSE IF CompileError(reactions) # "none"
       THEN /\ pc' = "Invalid"
            /\ err' = CompileError(reactions)
            /\ UNCHANGED compiled
       ELSE LET out == initialize_simulation(reactions, amounts)
            IN  /\ pc' = "Compiled"
                /\ err' = "none"
                /\ initial_state_dict' = out.initial_state_dict
                /\ initial_state' = out.initial_state
                /\ species_rxn_mapping' = out.species_rxn_mapping
                /\ reactants' = out.reactant_array
                /\ products' = out.product_array
                /\ coord_array' = out.coord_array
                /\ rate_constants' = out.rate_constants
    /\ UNCHANGED <<inputs, running, data, plotting, ghosts, iter, first_run>>

\* initialize_simulation, called by the script at the top of an iteration
Initialize ==
    /\ pc = "Idle"
    /\ IF CompileError(reactions) # "none"
       THEN /\ pc' = "Invalid"
            /\ err' = CompileError(reactions)
            /\ UNCHANGED compiled
       ELSE LET out == initialize_simulation(reactions, amounts)
            IN  /\ pc' = "Compiled"
                /\ err' = "none"
                /\ initial_state_dict' = out.initial_state_dict
                /\ initial_state' = out.initial_state
                /\ species_rxn_mapping' = out.species_rxn_mapping
                /\ reactants' = out.reactant_array
                /\ products' = out.product_array
                /\ coord_array' = out.coord_array
                /\ rate_constants' = out.rate_constants
    /\ UNCHANGED <<inputs, running, data, plotting, ghosts, iter, first_run>>

\* the script's state / propensity set-up and the prologue of simulate
Start ==
    /\ pc = "Compiled"
    /\ pc' = "Running"
    /\ state' = initial_state
    /\ propensity_array' = Propensity(rate_constants, coord_array)
    /\ total_propensity' = SumAll(propensity_array')
    /\ relevant_ind' = RelevantInd(propensity_array')
    /\ step_counter' = 0
    /\ reaction_history' = [i \in 0 .. (time_steps - 1) |-> 0]
    /\ times' = [i \in 0 .. (time_steps - 1) |-> ZeroTime]
    /\ state_history' = Empty /\ events' = Empty /\ tape' = Empty
    /\ UNCHANGED <<err, inputs, compiled, data, plotting, iter, first_run>>

\* a pass of simulate's loop from the selection on, with draws r1, r2
StepSelected(r1, r2) ==
    LET reached == ReachedPositions(propensity_array, relevant_ind,
                                    total_propensity, r2)
        reaction_choice_ind == relevant_ind[FirstPosition(reached)]
        converted_rxn_ind == reaction_choice_ind \div 2
        reverse == reaction_choice_ind % 2 = 1
        upd == update_state(reactants, products, state, converted_rxn_ind, reverse)
        change == ReactionsToChange(species_rxn_mapping, reactants, products,
                                    converted_rxn_ind)
        coords == RefreshCoord(coord_array, change, reactants, products, upd.state)
        props == Propensity(rate_constants, coords)
        rel == RelevantInd(props)
    IN  IF reached = {}
        THEN \* no running sum reaches the threshold
             /\ pc' = "Aborted" /\ err' = "IndexError"
             /\ UNCHANGED <<running, coord_array, state_history, events>>
        ELSE IF upd.err # "none"
        THEN \* update_state raised with the array written in place
             /\ pc' = "Aborted" /\ err' = upd.err
             /\ state' = upd.state
             /\ UNCHANGED <<propensity_array, total_propensity, relevant_ind,
                            step_counter, reaction_history, times, coord_array,
                            state_history, events>>
        ELSE IF RefreshRaises(change, reactants, products, upd.state)
        THEN \* get_coordination raised in the refresh loop: the channels the
             \* loop visited before the raising one are already written in
             \* place, and the set is iterated in no specified order
             /\ pc' = "Aborted" /\ err' = "RuntimeError"
             /\ state' = upd.state
             /\ \E visited \in SUBSET RefreshableChannels(change, reactants,
                                                         products, upd.state) :
                   coord_array' = RefreshCoord(coord_array, visited, reactants,
                                               products, upd.state)
             /\ UNCHANGED <<propensity_array, total_propensity, relevant_ind,
                            step_counter, reaction_history, times,
                            state_history, events>>
        ELSE /\ pc' = "Running" /\ err' = "none"
             /\ state' = upd.state
             /\ coord_array' = coords
             /\ propensity_array' = props
             /\ relevant_ind' = rel
             /\ total_propensity' = SumRelevant(props, rel)
             /\ reaction_history' = RecordEvent(reaction_history, step_counter,
                                                reaction_choice_ind)
             /\ times' = RecordEvent(times, step_counter, Tau(r1, total_propensity))
             /\ step_counter' = step_counter + 1
             /\ state_history' = Append(state_history, upd.state)
             /\ events' = Append(events, <<reaction_choice_ind,
                                           Tau(r1, total_propensity)>>)

\* a zero total propensity skipped: the pass records nothing and goes on
StepWithSkip(r1, r2) ==
    IF total_propensity = 0
    THEN /\ pc' = "Running" /\ err' = "none"
         /\ step_counter' = step_counter + 1
         /\ UNCHANGED <<state, propensity_array, total_propensity, relevant_ind,
                        reaction_history, times, coord_array, state_history,
                        events>>
    ELSE StepSelected(r1, r2)

\* the pass that takes the second draw for the waiting time and the first
\* for the selection
StepWithSwapped(r1, r2) ==
    IF total_propensity = 0
    THEN \/ /\ pc' = "Aborted" /\ err' = "ZeroDivisionError"
            /\ UNCHANGED <<running, coord_array, state_history, events>>
         \/ StepSelected(r2, r1)
    ELSE StepSelected(r2, r1)

\* one pass of simulate's loop with draws r1, r2.  What the division by a
\* zero total propensity (line 158) does depends on how the function is
\* run: compiled, it raises ZeroDivisionError; interpreted, it yields an
\* infinite waiting time and the pass goes on to the selection, which
\* raises IndexError when no channel is relevant
StepWith(r1, r2) ==
    IF total_propensity = 0
    THEN \/ /\ pc' = "Aborted" /\ err' = "ZeroDivisionError"
            /\ UNCHANGED <<running, coord_array, state_history, events>>
         \/ StepSelected(r1, r2)
    ELSE StepSelected(r1, r2)

\* the loop whose propensity product is written into the rate vector
StepOverwritingRates ==
    /\ pc = "Running"
    /\ step_counter < time_steps
    /\ \E d \in Draws :
          /\ (seeded /\ iter > 0) => d = first_run.tape[step_counter + 1]
          /\ StepWith(d[1], d[2])
          /\ tape' = Append(tape, d)
    /\ rate_constants' = propensity_array'
    /\ UNCHANGED <<inputs, initial_state_dict, initial_state, species_rxn_mapping,
                   reactants, products, data, plotting, iter, first_run>>

Step ==
    /\ pc = "Running"
    /\ step_counter < time_steps
    /\ \E d \in Draws :
          /\ (seeded /\ iter > 0) => d = first_run.tape[step_counter + 1]
          /\ StepWith(d[1], d[2])
          /\ tape' = Append(tape, d)
    /\ UNCHANGED <<inputs, initial_state_dict, initial_state, species_rxn_mapping,
                   reactants, products, rate_constants, data, plotting, iter,
                   first_run>>

\* a return that also hands back the history of an aborted run
ReturnAfterAbort ==
    /\ \/ pc = "Running" /\ step_counter = time_steps
       \/ pc = "Aborted"
    /\ pc' = "Complete"
    /\ data' = [row \in 0 .. 1 |-> IF row = 0 THEN reaction_history ELSE times]
    /\ UNCHANGED <<err, inputs, compiled, running, plotting, ghosts, iter,
                   first_run>>

\* the loop is over: simulate returns the two rows stacked
Return ==
    /\ pc = "Running"
    /\ step_counter = time_steps
    /\ pc' = "Complete"
    /\ data' = [row \in 0 .. 1 |-> IF row = 0 THEN reaction_history ELSE times]
    /\ UNCHANGED <<err, inputs, compiled, running, plotting, ghosts, iter,
                   first_run>>

\* plot_trajectory: the replay of data[0] on the state dict (an alias of
\* initial_state_dict), then the end time, which no event count leaves unset
Plot ==
    /\ pc = "Complete"
    /\ LET start == [state |-> initial_state_dict,
                     plot |-> [mol \in DOMAIN initial_state_dict |->
                                 <<<<0, initial_state_dict[mol]>>>>],
                     trace |-> Empty,
                     err |-> "none"]
           res == PlotReplay(start, reactants, products, data[0], time_steps)
       IN  /\ initial_state_dict' = res.state
           /\ state_to_plot' = res.plot
           /\ replayed' = res.trace
           /\ err' = IF res.err # "none" THEN res.err
                     ELSE IF time_steps = 0 THEN "UnboundLocalError"
                     ELSE "none"
           /\ pc' = IF err' = "none" THEN "Plotted" ELSE "PlotError"
    /\ UNCHANGED <<inputs, initial_state, species_rxn_mapping, reactants, products,
                   coord_array, rate_constants, running, data, ghosts, iter,
                   first_run>>

\* the script's next iteration
NextIteration ==
    /\ pc = "Plotted"
    /\ iter = 0
    /\ iter' = 1
    /\ pc' = "Idle"
    /\ first_run' = [data |-> data, state |-> state, tape |-> tape]
    /\ UNCHANGED <<err, inputs, compiled, running, data, plotting, ghosts>>

Next == Initialize \/ Start \/ Step \/ Return \/ Plot

Spec == Init /\ [][Next]_vars

\* two iterations of the script with the random source reseeded alike
InitPair ==
    InitWith(TRUE, TwoReactionNetworks \cup {<<rx>> : rx \in RatedReactions})

NextPair == Initialize \/ Start \/ Step \/ Return \/ Plot \/ NextIteration

SpecPair == InitPair /\ [][NextPair]_vars

\* the script run on the network of one reversible reaction A <-> B with
\* unit rate constants, from 100 molecules of A and none of B
InitReversible ==
    /\ pc = "Idle"
    /\ err = "none"
    /\ reactions = <<Rxn(<<0>>, <<1>>, 1, 1)>>
    /\ amounts = [k \in InitKeys |-> IF k = 0 THEN 100 ELSE 0]
    /\ time_steps \in 0 .. (MaxSteps + 1)
    /\ seeded = FALSE
    /\ calls = Empty
    /\ NothingCompiled
    /\ state = Empty
    /\ NothingRun

SpecReversible == InitReversible /\ [][Next]_vars

\* update_state called directly, on compiled tables and any population
DirectNetworks ==
    {<<rx>> : rx \in {u \in UnitReactions : u.reactants[1] = 0}}
    \cup TwoReactionNetworks

\* population arrays: any counts of the species the networks are built from
Populations ==
    {st \in [Species -> 0 .. MaxCount] : \A s \in Species \ UsedSpecies : st[s] = 0}

InitDirect ==
    /\ pc = "Direct"
    /\ err = "none"
    /\ reactions \in DirectNetworks
    /\ amounts = [k \in InitKeys |-> 0]
    /\ time_steps = 0
    /\ seeded = FALSE
    /\ calls = Empty
    /\ LET out == initialize_simulation(reactions, amounts)
       IN  /\ initial_state_dict = out.initial_state_dict
           /\ initial_state = out.initial_state
           /\ species_rxn_mapping = out.species_rxn_mapping
           /\ reactants = out.reactant_array
           /\ products = out.product_array
           /\ coord_array = out.coord_array
           /\ rate_constants = out.rate_constants
    /\ state \in Populations
    /\ NothingRun

\* one call update_state(reactants, products, state, rxn_ind, reverse): the
\* array is written in place, also when the call raises
UpdateCall ==
    /\ pc = "Direct"
    /\ Len(calls) < MaxCalls
    /\ \E rxn_ind \in DOMAIN reactants \cup {Absent}, reverse \in BOOLEAN :
          LET res == update_state(reactants, products, state, rxn_ind, reverse)
          IN  /\ state' = res.state
              /\ err' = res.err
              /\ pc' = IF res.err = "none" THEN "Direct" ELSE "Raised"
              /\ calls' = Append(calls, [rxn_ind |-> rxn_ind, reverse |-> reverse,
                                         before |-> state])
    /\ UNCHANGED <<reactions, amounts, time_steps, seeded, compiled,
                   propensity_array, total_propensity, relevant_ind, step_counter,
                   reaction_history, times, data, plotting, ghosts, iter,
                   first_run>>

SpecDirect == InitDirect /\ [][UpdateCall]_vars

\* ------------------------------------------------------------------ claims
\* how many slots of a side hold species s
Occ(side, s) == Cardinality({i \in 1 .. Len(side) : side[i] = s})

\* the consuming and the producing side of channel c, from the descriptors
Consumed(c) ==
    IF c % 2 = 1 THEN reactions[(c \div 2) + 1].products
    ELSE reactions[(c \div 2) + 1].reactants
Produced(c) ==
    IF c % 2 = 1 THEN reactions[(c \div 2) + 1].reactants
    ELSE reactions[(c \div 2) + 1].products

\* the calculator's coordination number of channel c on population st
CurrentCoord(c, st) == get_coordination(reactants, products, st, c \div 2, c % 2 = 1).h

\* a pass of simulate's loop that ran to its end
StepDone == pc = "Running" /\ step_counter' = step_counter + 1

\* C1: in every run of simulate started from the compiled arrays, no species
\* count is ever negative, whatever the draws.
C1_NonNegative == \A s \in DOMAIN state : state[s] >= 0

C1_Witness ==
    /\ pc = "Running" /\ step_counter >= 1
    /\ \E s \in Species : state[s] = 0 /\ initial_state[s] > 0

\* C2: at the start of every step, for every channel, the stored coordination
\* number is the calculator's value on the current population, and the
\* propensity is the rate constant times it.
C2_CoordIsCurrent ==
    (pc = "Running" /\ step_counter < time_steps) =>
        \A c \in DOMAIN coord_array :
            /\ coord_array[c] = CurrentCoord(c, state)
            /\ propensity_array[c] = rate_constants[c] * CurrentCoord(c, state)

\* C3: for every channel the coordination number stored at compile time is
\* what get_coordination returns on the initial population.
C3_CompileMatchesCalculator ==
    pc = "Compiled" =>
        \A c \in DOMAIN coord_array : coord_array[c] = CurrentCoord(c, initial_state)

\* C4: at the start of every step the cached total propensity is the sum of
\* the whole propensity vector.
C4_TotalIsFullSum ==
    pc = "Running" =>
        total_propensity = SumTo(propensity_array, 2 * Len(reactions))

C4_Witness ==
    /\ pc = "Running" /\ step_counter >= 1 /\ total_propensity > 0
    /\ \E c \in DOMAIN propensity_array : propensity_array[c] = 0

\* C5: firing channel c takes one molecule per slot from the consuming side
\* of reaction c div 2 (its products iff c is odd) and adds one per slot of
\* the other side; absent slots change nothing.
C5_FiringRule ==
    [][StepDone =>
        LET c == reaction_history'[step_counter]
        IN  \A s \in Species :
               state'[s] = state[s] - Occ(Consumed(c), s) + Occ(Produced(c), s)]_vars

C5_Witness ==
    /\ pc = "Running" /\ step_counter >= 1
    /\ events[1][1] % 2 = 1
    /\ Len(Consumed(events[1][1])) = 1
    /\ Len(Produced(events[1][1])) = 2

\* C6: the channel a step fires is the lowest relevant channel whose running
\* sum of propensities over the relevant set reaches r2 * A0; it has a
\* positive propensity, and r2 = 0 gives the lowest positive channel.
C6_SelectionRule ==
    [][StepDone =>
        LET r2 == tape'[step_counter + 1][2]
            c == reaction_history'[step_counter]
            relevant == {relevant_ind[k] : k \in 1 .. Len(relevant_ind)}
            RunSum(x) == SumTo([j \in 0 .. x |-> IF j \in relevant
                                                  THEN propensity_array[j] ELSE 0],
                               x + 1)
            reach == {x \in relevant : RunSum(x) * RDen >= r2 * total_propensity}
        IN  /\ c \in reach
            /\ \A x \in reach : c <= x
            /\ propensity_array[c] > 0
            /\ r2 = 0 => \A x \in DOMAIN propensity_array :
                            propensity_array[x] > 0 => c <= x]_vars

C6_Witness ==
    /\ pc = "Running" /\ step_counter >= 1
    /\ tape[1][2] > 0
    /\ \E x \in 0 .. (events[1][1] - 1) :
          rate_constants[x] * InitCoordArray(reactions, amounts)[x] > 0

\* C7: a run that does not abort makes exactly time_steps steps and returns
\* a history of time_steps entries, entry i the channel and waiting time of
\* step i; with time_steps = 0 the history is empty and no count changes.
C7_HistoryComplete ==
    /\ pc = "Running" => step_counter <= time_steps /\ Len(events) = step_counter
    /\ pc = "Complete" =>
          /\ step_counter = time_steps
          /\ Len(events) = time_steps
          /\ DOMAIN data[0] = 0 .. (time_steps - 1)
          /\ DOMAIN data[1] = 0 .. (time_steps - 1)
          /\ \A i \in 0 .. (time_steps - 1) : <<data[0][i], data[1][i]>> = events[i + 1]
          /\ time_steps = 0 => state = initial_state

C7_Witness ==
    /\ pc = "Complete" /\ time_steps >= 2
    /\ data[0][0] # data[0][1]

\* C8: a second execution on the same network, initial counts, step count
\* and draws returns the same history and ends in the same population.
C8_Deterministic ==
    iter = 1 =>
        /\ pc \notin {"Invalid", "Aborted"}
        /\ pc = "Complete" => data = first_run.data /\ state = first_run.state

C8_Witness ==
    /\ iter = 1 /\ pc = "Complete" /\ time_steps >= 2
    /\ state # initial_state
    /\ data[0][0] # data[0][1]

\* C9: the replay of the returned history on the initial dict raises no
\* error and has, after each event, the population simulate had after that
\* step (a missing key counting 0), the final one included.
C9_ReplayMatches ==
    pc \in {"Plotted", "PlotError"} =>
        /\ err # "ValueError"
        /\ Len(replayed) = time_steps
        /\ \A k \in 1 .. time_steps : \A s \in Species :
              DictGet(replayed[k], s, 0) = state_history[k][s]
        /\ \A s \in Species : DictGet(initial_state_dict, s, 0) = state[s]

C9_Witness ==
    /\ pc = "Plotted" /\ time_steps >= 2
    /\ \E s \in Species \ InitKeys :
          /\ s \in DOMAIN replayed[1] /\ replayed[1][s] = 1
          /\ replayed[2][s] = 0

\* the per-species weights tried
Weights == 0 .. 2

WSide(w, side) == SumTo([j \in 0 .. (Len(side) - 1) |-> w[side[j + 1]]], Len(side))
WSum(w, st) == SumTo([s \in Species |-> w[s] * st[s]], NumSpecies)
Balanced(w) ==
    \A i \in 1 .. Len(reactions) :
        WSide(w, reactions[i].reactants) = WSide(w, reactions[i].products)

\* C10: for every weight under which each reaction has equal sums on its two
\* sides, the weighted sum of the counts stays what it was initially.
C10_Conservation ==
    pc = "Running" =>
        \A w \in [Species -> Weights] :
            Balanced(w) => WSum(w, state) = WSum(w, initial_state)

C10_Witness ==
    /\ pc = "Running" /\ step_counter >= 1 /\ state # initial_state
    /\ \E w \in [Species -> Weights] :
          /\ Balanced(w) /\ WSum(w, state) > 0
          /\ \E s \in Species, t \in Species : w[s] # w[t]

\* a direct call of update_state was made in this step
Called == Len(calls') = Len(calls) + 1

\* the consuming and the producing side of the channel of that call
CallConsumed ==
    LET k == calls'[Len(calls')]
    IN  IF k.reverse THEN reactions[k.rxn_ind + 1].products
        ELSE reactions[k.rxn_ind + 1].reactants
CallProduced ==
    LET k == calls'[Len(calls')]
    IN  IF k.reverse THEN reactions[k.rxn_ind + 1].reactants
        ELSE reactions[k.rxn_ind + 1].products

\* C11: a call of update_state on a channel raises the negative-species
\* error exactly when some species has more slots on the channel's consuming
\* side than its current count (count 0 for one slot, count below 2 for a
\* side of two identical species); otherwise the call succeeds with every
\* count moved by the slot occurrences, and a count that runs short is
\* never clamped to 0.
C11_RaisesIffShort ==
    [][(Called /\ calls'[Len(calls')].rxn_ind # Absent) =>
          LET short == \E s \in Species : Occ(CallConsumed, s) > state[s]
          IN  /\ (err' = "ValueError") <=> short
              /\ ~short =>
                    /\ err' = "none"
                    /\ \A s \in Species :
                          state'[s] = state[s] - Occ(CallConsumed, s)
                                      + Occ(CallProduced, s)
              /\ short => \E s \in Species : state'[s] < 0]_vars

\* a call on a side of two identical species raised with one molecule there
C11_Witness ==
    /\ pc = "Raised" /\ err = "ValueError"
    /\ LET k == calls[Len(calls)]
           side == IF k.reverse THEN reactions[k.rxn_ind + 1].products
                   ELSE reactions[k.rxn_ind + 1].reactants
       IN  /\ Len(side) = 2 /\ side[1] = side[2]
           /\ k.before[side[1]] = 1

\* C12: a step that begins with a total propensity of zero or less fails
\* fatally: no channel is recorded, the population is not changed, the run
\* is over and no history is ever returned from it.
C12_ZeroTotalAborts ==
    [][/\ (pc = "Running" /\ step_counter < time_steps /\ total_propensity <= 0)
          => /\ pc' = "Aborted" /\ err' # "none"
             /\ state' = state
             /\ reaction_history' = reaction_history /\ events' = events
             /\ step_counter' = step_counter
             /\ data' = Empty
       /\ pc = "Aborted" => (pc' = "Aborted" /\ data' = Empty)]_vars

\* the run was aborted mid-run, after every propensity had dropped to 0
C12_Witness ==
    /\ pc = "Aborted" /\ err \in {"ZeroDivisionError", "IndexError"}
    /\ total_propensity = 0
    /\ step_counter >= 1
    /\ \A c \in DOMAIN propensity_array : propensity_array[c] = 0
    /\ state = state_history[step_counter]
    /\ data = Empty

\* reaction i of the network has a side of 0 or of 3 or more species
BadArity(i) ==
    \/ Len(reactions[i].reactants) \notin {1, 2}
    \/ Len(reactions[i].products) \notin {1, 2}

\* C13: when any reaction of the network, wherever it stands in the list,
\* has a side whose number of species is not 1 or 2, initialize_simulation
\* fails with an error and returns no compiled arrays.
C13_BadArityRejected ==
    (pc # "Idle" /\ \E i \in 1 .. Len(reactions) : BadArity(i)) =>
        /\ pc = "Invalid" /\ err \in {"RuntimeError", "IndexError"}
        /\ initial_state = Empty /\ species_rxn_mapping = Empty
        /\ reactants = Empty /\ products = Empty
        /\ coord_array = Empty /\ rate_constants = Empty

\* the compile was rejected for the second reaction of a network whose
\* first reaction is well-formed
C13_Witness ==
    /\ pc = "Invalid" /\ err # "none"
    /\ Len(reactions) = 2
    /\ ~BadArity(1) /\ BadArity(2)
    /\ reactants = Empty /\ coord_array = Empty

\* C14: on the network of one reversible reaction A <-> B with unit rate
\* constants, started from A = 100 and B = 0, the total propensity before
\* the first step is 100, the first step fires channel 0 whatever r2 is,
\* and after it A = 99 and B = 1 with coordination numbers 99 for the
\* forward and 1 for the reverse channel.
C14_ReversibleFirstStep ==
    /\ pc # "Aborted"
    /\ pc = "Running" =>
          /\ step_counter = 0 =>
                /\ total_propensity = 100
                /\ propensity_array[0] = 100 /\ propensity_array[1] = 0
          /\ step_counter >= 1 =>
                /\ reaction_history[0] = 0
                /\ events[1][1] = 0
                /\ state_history[1][0] = 99 /\ state_history[1][1] = 1
          /\ step_counter = 1 =>
                /\ state[0] = 99 /\ state[1] = 1
                /\ coord_array[0] = 99 /\ coord_array[1] = 1

\* the first step was taken with the largest draw r2
C14_Witness ==
    /\ pc = "Running" /\ step_counter = 1
    /\ tape[1][2] = RDen - 1
    /\ state[0] = 99 /\ state[1] = 1
    /\ coord_array[0] = 99 /\ coord_array[1] = 1

\* the population the coordination numbers stand for: the compiled initial
\* one before simulate starts, the current one during the run
CountsNow == IF pc = "Compiled" THEN initial_state ELSE state

\* C15: a channel whose consuming side is two distinct species has the
\* coordination number n1 * n2, in the compiled array and after every
\* refresh, also when n1 = n2: the rule for two identical species goes by
\* the species' identity, never by equal counts.  A channel whose consuming
\* side is a single species has h = n.
C15_DistinctSpeciesProduct ==
    pc \in {"Compiled", "Running"} =>
        \A c \in DOMAIN coord_array :
            LET side == Consumed(c)
                h == IF Len(side) = 1 THEN CountsNow[side[1]]
                     ELSE CountsNow[side[1]] * CountsNow[side[2]]
            IN  (Len(side) = 1 \/ side[1] # side[2]) =>
                    /\ coord_array[c] = h
                    /\ CurrentCoord(c, CountsNow) = h

\* after a step, a channel of two distinct species that hold the same
\* number of molecules, two or more
C15_Witness ==
    /\ pc = "Running" /\ step_counter >= 1
    /\ \E c \in DOMAIN coord_array :
          LET side == Consumed(c)
          IN  /\ Len(side) = 2 /\ side[1] # side[2]
              /\ state[side[1]] = state[side[2]] /\ state[side[1]] >= 2
              /\ c \in ReactionsToChange(species_rxn_mapping, reactants, products,
                                         reaction_history[step_counter - 1] \div 2)
              /\ coord_array[c] = state[side[1]] * state[side[1]]

\* the channels of the compiled network
Channels == 0 .. (2 * Len(reactions) - 1)

\* dependency[s]: the channels listed in row s of the padded table
Dependency(s) ==
    {species_rxn_mapping[s][j] : j \in DOMAIN species_rxn_mapping[s]} \ {Absent}

\* the channels whose consuming side holds s, and the channels that hold s
\* on either side (both channels of every reaction s takes part in)
Consuming(s) == {c \in Channels : Occ(Consumed(c), s) > 0}
Touching(s) == {c \in Channels : Occ(Consumed(c), s) > 0 \/ Occ(Produced(c), s) > 0}

\* the tables exist
Tabled == pc \notin {"Idle", "Invalid"}

\* C16 as stated: for every species s and every reaction r that has s as a
\* reactant or as a product, both channels 2r and 2r+1 are listed in
\* dependency[s].
C16_BothOrientationsListed ==
    Tabled => \A s \in Species : Touching(s) \subseteq Dependency(s)

\* C16: for every species s, dependency[s] lists every channel whose
\* consuming side holds s: channel 2r for every reaction r that has s as a
\* reactant, channel 2r+1 for every reaction r that has s as a product.
C16_ConsumingChannelsListed ==
    Tabled => \A s \in Species : Consuming(s) \subseteq Dependency(s)

\* a species that is a reactant and not a product of reaction r: channel 2r
\* is listed for it, channel 2r+1 is not
C16_Witness ==
    /\ pc = "Compiled"
    /\ \E s \in Species, i \in 1 .. Len(reactions) :
          /\ Occ(reactions[i].reactants, s) > 0
          /\ Occ(reactions[i].products, s) = 0
          /\ 2 * (i - 1) \in Dependency(s)
          /\ 2 * (i - 1) + 1 \notin Dependency(s)

\* population st with one more molecule of s
OneMore(st, s) == [st EXCEPT ![s] = @ + 1]

\* C17: for every species s, dependency[s] is exactly the set of channels
\* whose consuming side holds s, none missing and none extra; these are
\* the channels whose coordination number can change with the count of s.
C17_DependencyExact ==
    /\ Tabled => \A s \in Species : Dependency(s) = Consuming(s)
    /\ pc = "Compiled" =>
          \A s \in Species, c \in Channels :
              c \in Dependency(s) <=>
                 \E st \in Populations :
                     CurrentCoord(c, OneMore(st, s)) # CurrentCoord(c, st)

\* a network of two reactions compiled: a species listed for two channels,
\* another for fewer, so that its row is padded
C17_Witness ==
    /\ pc = "Compiled" /\ Len(reactions) = 2
    /\ \E s, t \in Species :
          /\ Cardinality(Dependency(s)) = 2
          /\ Cardinality(Dependency(t)) = 1
          /\ \E j \in DOMAIN species_rxn_mapping[t] :
                species_rxn_mapping[t][j] = Absent

\* the channels listed in a relevant set
ListedIn(rel) == {rel[k] : k \in 1 .. Len(rel)}

\* C18: at the start of every step the cached relevant set is exactly the
\* set of channels with a positive entry in the propensity vector the
\* selection uses, each listed once, and the channel a step fires is one
\* of them.
C18_RelevantSetExact ==
    [][/\ pc' = "Running" =>
             /\ ListedIn(relevant_ind')
                  = {c \in DOMAIN propensity_array' : propensity_array'[c] > 0}
             /\ Len(relevant_ind') = Cardinality(ListedIn(relevant_ind'))
       /\ StepDone =>
             /\ reaction_history'[step_counter] \in ListedIn(relevant_ind)
             /\ propensity_array[reaction_history'[step_counter]] > 0]_vars

\* after a step some channels are relevant and some are not, and one that
\* is relevant now had a zero propensity on the population before the step
C18_Witness ==
    /\ pc = "Running" /\ step_counter >= 1
    /\ ListedIn(relevant_ind) # {}
    /\ ListedIn(relevant_ind) # DOMAIN propensity_array
    /\ \E c \in ListedIn(relevant_ind) :
          Propensity(rate_constants,
                     [d \in DOMAIN coord_array |->
                        CurrentCoord(d, IF step_counter = 1 THEN initial_state
                                        ELSE state_history[step_counter - 1])])[c] = 0

\* C19: in every run from the compiled arrays, a channel with a positive
\* propensity has enough molecules: every species has at least as many
\* molecules as it has slots on the channel's consuming side, also for a
\* channel that still holds its compile-time number for two identical
\* species.  So update_state never raises the negative-species error.
C19_PositiveMeansEnough ==
    /\ err # "ValueError"
    /\ pc = "Running" =>
          \A c \in DOMAIN propensity_array :
              propensity_array[c] > 0 =>
                  \A s \in Species : state[s] >= Occ(Consumed(c), s)

\* after a step, a channel of two identical species with a positive
\* propensity still holds its compile-time number n * (n - 1)
C19_Witness ==
    /\ pc = "Running" /\ step_counter >= 1
    /\ \E c \in DOMAIN propensity_array :
          LET side == Consumed(c)
          IN  /\ Len(side) = 2 /\ side[1] = side[2]
              /\ propensity_array[c] > 0
              /\ coord_array[c] = state[side[1]] * (state[side[1]] - 1)
              /\ coord_array[c] # CurrentCoord(c, state)

\* C20 as stated: update_state finds the shortage before any count goes
\* negative: when it raises the negative-species error, no entry of the
\* caller's array is negative and the array is as it was before the call.
C20_NoDecrementLeftBehind ==
    [][(Called /\ err' = "ValueError") =>
          /\ \A s \in Species : state'[s] >= 0
          /\ state' = state]_vars

\* C20: update_state finds the shortage right after the decrement that
\* makes a count negative: when it raises the negative-species error, the
\* caller's array holds the decrements of the consuming slots up to and
\* including the offending one, whose species stands at -1; no other
\* count is negative and no increment was applied.
C20_RaisedAfterWrite ==
    [][(Called /\ err' = "ValueError") =>
          \E k \in 1 .. Len(CallConsumed) :
              /\ \A s \in Species :
                    state'[s] = state[s] - Occ(SubSeq(CallConsumed, 1, k), s)
              /\ state'[CallConsumed[k]] = 0 - 1
              /\ \A s \in Species \ {CallConsumed[k]} : state'[s] >= 0]_vars

\* a call raised at the second slot of a side of two distinct species: the
\* first species keeps its decrement, the second stands at -1
C20_Witness ==
    /\ pc = "Raised" /\ err = "ValueError"
    /\ LET k == calls[Len(calls)]
           side == IF k.reverse THEN reactions[k.rxn_ind + 1].products
                   ELSE reactions[k.rxn_ind + 1].reactants
       IN  /\ Len(side) = 2 /\ side[1] # side[2]
           /\ k.before[side[1]] >= 1 /\ k.before[side[2]] = 0
           /\ state[side[1]] = k.before[side[1]] - 1
           /\ state[side[2]] = 0 - 1

\* C21: a step of simulate that fails ends the run at once: the failed step
\* records nothing and is not retried, no later step is executed, no further
\* draw is made, and no event history is returned.
C21_FailureEndsRun ==
    [][/\ (pc = "Running" /\ pc' = "Aborted") =>
             /\ err' # "none"
             /\ step_counter' = step_counter
             /\ reaction_history' = reaction_history /\ times' = times
             /\ events' = events
             /\ Len(tape') = step_counter + 1
             /\ data' = Empty
       /\ pc = "Aborted" =>
             /\ pc' = "Aborted" /\ err' = err
             /\ tape' = tape /\ step_counter' = step_counter
             /\ state' = state /\ events' = events
             /\ data' = Empty]_vars

\* a run that failed with steps still to do
C21_Witness ==
    /\ pc = "Aborted" /\ err # "none"
    /\ step_counter + 1 < time_steps
    /\ Len(tape) = step_counter + 1
    /\ Len(events) = step_counter
    /\ data = Empty

\* C22: every step of simulate takes exactly two draws, r1 first and r2
\* second, before anything changes; r1 goes into the waiting time only and
\* r2 into the channel selection only; within the step the channel is
\* selected on the vector the step began with, then the population is
\* updated, then the coordination numbers and propensities are refreshed
\* from the updated population, then the event is recorded.
C22_DrawsAndOrder ==
    [][(pc = "Running" /\ step_counter < time_steps) =>
          /\ Len(tape') = Len(tape) + 1
          /\ StepDone =>
                LET d == tape'[Len(tape')]
                    c == relevant_ind[FirstPosition(
                             ReachedPositions(propensity_array, relevant_ind,
                                              total_propensity, d[2]))]
                    tau == Tau(d[1], total_propensity)
                IN  /\ state' = update_state(reactants, products, state,
                                             c \div 2, c % 2 = 1).state
                    /\ \A ch \in ReactionsToChange(species_rxn_mapping, reactants,
                                                  products, c \div 2) \ {Absent} :
                           coord_array'[ch] = CurrentCoord(ch, state')
                    /\ propensity_array' = Propensity(rate_constants, coord_array')
                    /\ reaction_history'[step_counter] = c
                    /\ times'[step_counter] = tau
                    /\ events' = Append(events, <<c, tau>>)]_vars

\* a second step done on draws that differ from each other, with a
\* population the first step changed
C22_Witness ==
    /\ pc = "Running" /\ step_counter = 2
    /\ Len(tape) = 2
    /\ tape[2][1] # tape[2][2]
    /\ state_history[1] # initial_state
    /\ times[1].r1 = tape[2][1]
    /\ events[2][1] # events[1][1]

\* the species in the reactant and product slots of the reaction of channel c
SlotSpecies(c) ==
    {s \in Species : Occ(Consumed(c), s) > 0 \/ Occ(Produced(c), s) > 0}

\* the union of dependency[s] over those species
DependentChannels(c) == UNION {Dependency(s) : s \in SlotSpecies(c)}

\* C23: a step that fires a channel of reaction r recomputes the
\* coordination number of exactly the channels in the union of
\* dependency[s] over the species in r's reactant and product slots, padding
\* skipped; every other channel keeps its stored coordination number.
C23_RefreshExactlyDependents ==
    [][StepDone =>
          LET c == reaction_history'[step_counter]
          IN  \A ch \in Channels :
                  IF ch \in DependentChannels(c)
                  THEN coord_array'[ch] = CurrentCoord(ch, state')
                  ELSE coord_array'[ch] = coord_array[ch]]_vars

\* after a step of a network of two reactions: a channel of the other
\* reaction was recomputed, a channel was left alone, and a row that was
\* read is padded
C23_Witness ==
    /\ pc = "Running" /\ step_counter >= 1 /\ Len(reactions) = 2
    /\ LET c == reaction_history[step_counter - 1]
       IN  /\ \E ch \in DependentChannels(c) : ch \div 2 # c \div 2
           /\ \E ch \in Channels \ DependentChannels(c) :
                 coord_array[ch] # CurrentCoord(ch, state)
           /\ \E s \in SlotSpecies(c) :
                 \E j \in DOMAIN species_rxn_mapping[s] :
                     species_rxn_mapping[s][j] = Absent

\* C24: no step of simulate, and neither its return nor its abort, changes
\* the rate-constant vector, the reactant table, the product table or the
\* dependency table.
C24_TablesReadOnly ==
    [][pc = "Running" =>
          /\ rate_constants' = rate_constants
          /\ reactants' = reactants
          /\ products' = products
          /\ species_rxn_mapping' = species_rxn_mapping]_vars

\* a run of two steps ended with the four tables as they were compiled,
\* while the coordination array was rewritten
C24_Witness ==
    /\ pc = "Complete" /\ step_counter = 2
    /\ rate_constants = RateConstants(reactions)
    /\ reactants = ReactantArray(reactions)
    /\ products = ProductArray(reactions)
    /\ species_rxn_mapping = SpeciesRxnMapping(reactions)
    /\ coord_array # InitCoordArray(reactions, amounts)

\* C25: runs of simulate that share one output of initialize_simulation do
\* not influence each other, because simulate writes to none of the arrays
\* initialize_simulation returned: the coordination array, the initial
\* population and the four tables are after every step what they were at
\* the start of the run.
C25_CompilerOutputsUnwritten ==
    [][pc = "Running" =>
          /\ coord_array' = coord_array
          /\ initial_state' = initial_state
          /\ rate_constants' = rate_constants
          /\ reactants' = reactants
          /\ products' = products
          /\ species_rxn_mapping' = species_rxn_mapping]_vars

\* the channel indices collected for species s, in the order of collection
Collected(s) == MappingList(reactions, s, Len(reactions))

\* the length of the longest of these lists
LongestList ==
    CHOOSE n \in 0 .. (4 * Len(reactions)) :
        /\ \A s \in Species : Len(Collected(s)) <= n
        /\ \E s \in Species : Len(Collected(s)) = n

\* C26: row s of the padded dependency table is as long as the longest list
\* and holds, in its leading slots, the channel indices collected for s, in
\* their order, followed only by the sentinel -1: also for a list shorter
\* than the longest, for an empty list, and when the longest list is empty.
C26_PaddedRows ==
    Tabled =>
        \A s \in Species :
            /\ DOMAIN species_rxn_mapping[s] = 0 .. (LongestList - 1)
            /\ \A j \in DOMAIN species_rxn_mapping[s] :
                   species_rxn_mapping[s][j] =
                       IF j < Len(Collected(s)) THEN Collected(s)[j + 1] ELSE Absent

\* a compiled table with a list shorter than the longest and an empty list
C26_Witness ==
    /\ pc = "Compiled" /\ LongestList >= 2
    /\ \E s, t \in Species :
          /\ Len(Collected(s)) >= 1 /\ Len(Collected(s)) < LongestList
          /\ species_rxn_mapping[s][0] = Collected(s)[1]
          /\ species_rxn_mapping[s][LongestList - 1] = Absent
          /\ Len(Collected(t)) = 0
          /\ species_rxn_mapping[t][0] = Absent

\* C27: a call of update_state that succeeds changes the count of no species
\* outside the reactant and product slots of the chosen reaction, and moves
\* each count by its occurrences on the producing side minus its occurrences
\* on the consuming side: a species occurring equally often on both sides
\* keeps its count.
C27_UpdateFrame ==
    [][(Called /\ err' = "none") =>
          \A s \in Species :
              LET gain == Occ(CallProduced, s)
                  loss == Occ(CallConsumed, s)
              IN  /\ state'[s] - state[s] = gain - loss
                  /\ (gain = 0 /\ loss = 0) => state'[s] = state[s]
                  /\ gain = loss => state'[s] = state[s]]_vars

\* a successful call on a reaction with a species on both sides and a
\* species on neither, both holding molecules
C27_Witness ==
    /\ pc = "Direct" /\ Len(calls) >= 1
    /\ LET k == calls[Len(calls)]
           rx == reactions[k.rxn_ind + 1]
       IN  /\ \E s \in Species :
                 /\ Occ(rx.reactants, s) = 1 /\ Occ(rx.products, s) = 1
                 /\ state[s] = k.before[s] /\ state[s] >= 1
           /\ \E s \in Species :
                 /\ Occ(rx.reactants, s) = 0 /\ Occ(rx.products, s) = 0
                 /\ state[s] = k.before[s] /\ state[s] >= 1
           /\ state # k.before

\* the population after the n-th direct call
AfterCall(n) == IF n = Len(calls) THEN state ELSE calls[n + 1].before

\* the n-th call succeeded
CallSucceeded(n) == n < Len(calls) \/ pc = "Direct"

\* C28: firing the forward channel and then the reverse channel of one
\* reaction, or the reverse and then the forward, both firings succeeding,
\* leaves the population array exactly as it was before the two firings.
C28_ForwardReverseRestores ==
    \A n \in 2 .. Len(calls) :
        (/\ calls[n].rxn_ind # Absent
         /\ calls[n - 1].rxn_ind = calls[n].rxn_ind
         /\ calls[n - 1].reverse # calls[n].reverse
         /\ CallSucceeded(n - 1) /\ CallSucceeded(n))
        => AfterCall(n) = calls[n - 1].before

\* the reverse and then the forward channel of a reaction with a side of two
\* identical species fired, the first firing having changed the population
C28_Witness ==
    /\ pc = "Direct" /\ Len(calls) = 2
    /\ calls[1].rxn_ind # Absent
    /\ calls[1].rxn_ind = calls[2].rxn_ind
    /\ calls[1].reverse /\ ~calls[2].reverse
    /\ LET rx == reactions[calls[1].rxn_ind + 1]
       IN  Len(rx.reactants) = 2 /\ rx.reactants[1] = rx.reactants[2]
    /\ calls[2].before # calls[1].before
    /\ state = calls[1].before

\* the channel that index -1 addresses
LastChannel == 2 * Len(reactions) - 1

\* C29: the sentinel -1 of an absent slot is never taken for a species.
\* get_coordination of a side with one species returns that species' count
\* whatever the other counts are, the count of the last species included;
\* a step changes the count of the last species only when the fired
\* reaction holds it in a slot, and recomputes the last channel only when
\* it is listed for a species of the fired reaction.
C29_SentinelIsNoSpecies ==
    [][/\ pc' = "Compiled" =>
             \A c \in Channels :
                 Len(Consumed(c)) = 1 =>
                     \A st \in Populations :
                         get_coordination(reactants', products', st, c \div 2,
                                          c % 2 = 1).h = st[Consumed(c)[1]]
       /\ StepDone =>
             LET c == reaction_history'[step_counter]
             IN  /\ Last \notin SlotSpecies(c) => state'[Last] = state[Last]
                 /\ LastChannel \notin DependentChannels(c) =>
                        coord_array'[LastChannel] = coord_array[LastChannel]
                 /\ DOMAIN coord_array' = DOMAIN coord_array
                 /\ DOMAIN state' = DOMAIN state]_vars

\* a step fired a channel with an absent slot and read a padded row, while
\* the last species held a molecule and stood in no slot of the fired
\* reaction, and the last channel was listed for none of its species
C29_Witness ==
    /\ pc = "Running" /\ step_counter = 2
    /\ LET c == reaction_history[1]
       IN  /\ Len(Consumed(c)) = 1
           /\ Last \notin SlotSpecies(c)
           /\ state[Last] >= 1 /\ state[Last] = state_history[1][Last]
           /\ LastChannel \notin DependentChannels(c)
           /\ \E s \in SlotSpecies(c) :
                 \E j \in DOMAIN species_rxn_mapping[s] :
                     species_rxn_mapping[s][j] = Absent
           /\ coord_array[c] = state[Consumed(c)[1]]

\* the side that channel c consumes by the pairing: the reactants of
\* reaction c / 2 for an even c, its products for an odd c
PairedSide(c) ==
    IF c % 2 = 0 THEN reactions[(c \div 2) + 1].reactants
    ELSE reactions[(c \div 2) + 1].products

\* the rate constant of channel c by the pairing
PairedRate(c) ==
    IF c % 2 = 0 THEN reactions[(c \div 2) + 1].k_A
    ELSE reactions[(c \div 2) + 1].k_B

\* the run-time coordination number of a side on population st
SideCoord(side, st) ==
    IF Len(side) = 1 THEN st[side[1]]
    ELSE IF side[1] = side[2] THEN (st[side[1]] * (st[side[1]] - 1)) \div 2
    ELSE st[side[1]] * st[side[2]]

\* C30: the pairing of channels is the same everywhere.  The compiler
\* stores k_A and the reactant-side coordination number at index 2r, k_B
\* and the product-side one at 2r+1, and lists 2r for r's reactants and
\* 2r+1 for r's products; a step that fires 2r consumes r's reactants and
\* one that fires 2r+1 consumes r's products, and every channel it
\* refreshes is recomputed from the side the pairing gives it.
C30_ChannelPairing ==
    [][/\ pc' = "Compiled" =>
             \A c \in Channels :
                 /\ rate_constants'[c] = PairedRate(c)
                 /\ coord_array'[c] = InitCoordSide(PairedSide(c), amounts)
                 /\ \A s \in Species :
                        Occ(PairedSide(c), s) > 0 =>
                            \E j \in DOMAIN species_rxn_mapping'[s] :
                                species_rxn_mapping'[s][j] = c
       /\ StepDone =>
             LET c == reaction_history'[step_counter]
                 other == IF c % 2 = 0 THEN c + 1 ELSE c - 1
             IN  /\ \A s \in Species :
                        state'[s] = state[s] - Occ(PairedSide(c), s)
                                    + Occ(PairedSide(other), s)
                 /\ \A ch \in DependentChannels(c) :
                        /\ coord_array'[ch] = SideCoord(PairedSide(ch), state')
                        /\ propensity_array'[ch] = PairedRate(ch) * coord_array'[ch]]_vars

\* a reverse channel with a rate constant other than the forward one was
\* fired and refreshed from the product side
C30_Witness ==
    /\ pc = "Running" /\ step_counter >= 1
    /\ LET c == reaction_history[step_counter - 1]
       IN  /\ c % 2 = 1
           /\ PairedRate(c) # PairedRate(c - 1)
           /\ PairedSide(c) # PairedSide(c - 1)
           /\ c \in DependentChannels(c)
           /\ coord_array[c] = SideCoord(reactions[(c \div 2) + 1].products, state)
           /\ propensity_array[c] = reactions[(c \div 2) + 1].k_B * coord_array[c]

=============================================================================
